---- MODULE Spec2Model ----
(***************************************************************************)
(* Model of beard.matching.clusters.cluster_assignment: the matching of    *)
(* freshly computed clusters ("new") to the clusters already known to the  *)
(* system ("old").  One behaviour of the model is one call: Init draws the *)
(* arguments, the actions follow the body of the function step by step,    *)
(* and the call ends in pc = "done" (line 194, the return) or in           *)
(* pc = "raised" (an exception left the function).                         *)
(***************************************************************************)
EXTENDS Integers, Sequences, FiniteSets, TLC

\* Bounds of the model: the entities are 1..MaxEnt, the ids of the old
\* clusters are among 1..MaxOld and those of the new clusters among 1..MaxNew.
MaxEnt == 2
MaxOld == 2
MaxNew == 2

VARIABLES
    old_clusters,          \* argument: old id -> list of entities
    new_clusters,          \* argument: new id -> list of entities
    similarity_function,   \* argument: the name of the cost function
    claims,                \* argument: id -> list of claimed entities
    rejected,              \* argument: id -> list of rejected entities
    assigned,              \* line 111
    unassigned,            \* line 112
    old_visited,           \* line 123
    new_visited,           \* line 126
    current_new,           \* line 128
    current_old,           \* line 130
    todo,                  \* keys the loop of line 134 has not reached yet
    assignment,            \* line 168: list of <<row, column>>, 0-based
    idx,                   \* position of the loop of line 170 in assignment
    pc,                    \* "loop", "solve", "resolve", "done", "raised"
    exc,                   \* the exception that left the function, or "none"
    solved                 \* history: the components handed to the solver

vars == <<old_clusters, new_clusters, similarity_function, claims, rejected,
          assigned, unassigned, old_visited, new_visited, current_new,
          current_old, todo, assignment, idx, pc, exc, solved>>

inputs == <<old_clusters, new_clusters, similarity_function, claims, rejected>>

----------------------------------------------------------------------------
\* Helpers on lists and mappings.

Range(s) == {s[i] : i \in DOMAIN s}

Entities == 1..MaxEnt
OldIds == 1..MaxOld
NewIds == 1..MaxNew

\* The lists of pairwise different entities, in any order.
Lists == {s \in UNION {[1..n -> Entities] : n \in 0..MaxEnt} :
             \A i, j \in DOMAIN s : i # j => s[i] # s[j]}

\* The partitions the callers pass: a mapping from some of the ids to lists,
\* no entity in two clusters (a cluster may be empty).
Partitions(Ids) ==
    UNION {{p \in [K -> Lists] :
               \A a, b \in K : a # b => Range(p[a]) \cap Range(p[b]) = {}} :
           K \in SUBSET Ids}

EmptyMap == [k \in {} |-> <<>>]

\* claims and rejected as passed by the callers: the default {} or one old
\* id with one entity (the id need not be a key of old_clusters).
Overrides == {EmptyMap} \cup
             {[x \in {k} |-> <<e>>] : k \in OldIds, e \in Entities}

\* All entities of a partition.
AllEntities(clusters) == UNION {Range(clusters[k]) : k \in DOMAIN clusters}

\* Lines 118 and 120: the map from an entity to the id of its cluster.
Reversed(clusters) ==
    [v \in AllEntities(clusters) |->
        CHOOSE k \in DOMAIN clusters : v \in Range(clusters[k])]

\* Faulty variant of ClaimsSet: only the claims filed under the key of an
\* old cluster count.
ClaimsSet_OldKeys(cl) ==
    UNION {Range(cl[k]) : k \in DOMAIN cl \cap DOMAIN old_clusters}

\* Line 116: the set of all claimed entities.
ClaimsSet(cl) == UNION {Range(cl[k]) : k \in DOMAIN cl}

\* dict.get(key, []) of lines 159, 160 and 178.
Get(map, key) == IF key \in DOMAIN map THEN map[key] ELSE <<>>

----------------------------------------------------------------------------
\* The cost functions of the test suite (tests/matching/test_clusters.py).

simple_cost(x, y, z, a) == 1

intersection_cost(x, y, z, a) == 0 - Cardinality(Range(x) \cap Range(y))

weird_cost(x, y, z, a) ==
    IF Cardinality(Range(x) \cap Range(y)) = 1 THEN 0 - 1 ELSE 0

sensible_cost(x, y, z, a) ==
    Cardinality(Range(y) \ Range(x)) - Cardinality(Range(x) \cap Range(y))

\* The cost function is the caller's (lines 51-76: any function of the four
\* lists that returns a number).  This one reads all four arguments: an old
\* cluster costs its size, less two for every entity of the new cluster it
\* claims, plus one for every entity of the new cluster it rejects.
override_cost(x, y, z, a) ==
    Len(y) - 2 * Cardinality(Range(x) \cap Range(z))
           + Cardinality(Range(x) \cap Range(a))

CostFunctions == {"simple_cost", "intersection_cost", "weird_cost",
                  "sensible_cost", "override_cost"}

\* The call similarity_function(new, old, claims, rejections).
Call(f, x, y, z, a) ==
    CASE f = "simple_cost" -> simple_cost(x, y, z, a)
      [] f = "intersection_cost" -> intersection_cost(x, y, z, a)
      [] f = "weird_cost" -> weird_cost(x, y, z, a)
      [] f = "sensible_cost" -> sensible_cost(x, y, z, a)
      [] f = "override_cost" -> override_cost(x, y, z, a)

----------------------------------------------------------------------------
\* Lines 94-109: graph_traversal.  The traversal state st holds the four
\* objects the recursion mutates (the two current lists, the two visited
\* maps) and whether a lookup raised KeyError.  side names the side of
\* this_side_clusters; the recursive call switches the sides.

Other(side) == IF side = "new" THEN "old" ELSE "new"

Clusters(side) == IF side = "new" THEN new_clusters ELSE old_clusters

Visited(side, st) == IF side = "new" THEN st.new_visited ELSE st.old_visited

\* Lines 100-101 (and 137-138): append the cluster and mark it visited.
Enter(side, c, st) ==
    IF side = "new"
    THEN [st EXCEPT !.current_new = Append(@, c), !.new_visited[c] = TRUE]
    ELSE [st EXCEPT !.current_old = Append(@, c), !.old_visited[c] = TRUE]

RECURSIVE graph_traversal(_, _, _), TraverseSigs(_, _, _, _)

\* Lines 102-109 (and 139-145): the loop over the entities of a cluster of
\* `side`, from position i on.  reversed_other_side[sig] raises KeyError
\* when no cluster of the other side holds sig.
TraverseSigs(side, sigs, i, st) ==
    IF st.raised \/ i > Len(sigs) THEN st
    ELSE LET reversed_other_side == Reversed(Clusters(Other(side)))
             sig == sigs[i]
         IN  IF sig \notin DOMAIN reversed_other_side
             THEN [st EXCEPT !.raised = TRUE]
             ELSE IF ~Visited(Other(side), st)[reversed_other_side[sig]]
                  THEN TraverseSigs(side, sigs, i + 1,
                           graph_traversal(Other(side),
                                           reversed_other_side[sig], st))
                  ELSE TraverseSigs(side, sigs, i + 1, st)

\* Faulty variant of graph_traversal: the cluster is entered but the
\* traversal does not go on from its entities.
graph_traversal_Flat(side, current_cluster, st) ==
    Enter(side, current_cluster, st)

graph_traversal(side, current_cluster, st) ==
    TraverseSigs(side, Clusters(side)[current_cluster], 1,
                 Enter(side, current_cluster, st))

----------------------------------------------------------------------------
\* Faulty variant of cost_matrix: the claims and the rejections of the old
\* cluster are not handed to the cost function.
cost_matrix_NoOverrides(cnew, cold) ==
    [i \in 1..Len(cnew) |->
        [j \in 1..(Len(cold) + Len(cnew)) |->
            IF j <= Len(cold)
            THEN Call(similarity_function, new_clusters[cnew[i]],
                      old_clusters[cold[j]], <<>>, <<>>)
            ELSE Call(similarity_function, new_clusters[cnew[i]],
                      <<>>, <<>>, <<>>)]]

\* Lines 152-164: the cost matrix of a component, len(current_new) rows and
\* len(current_old) + len(current_new) columns (1-based here).
cost_matrix(cnew, cold) ==
    [i \in 1..Len(cnew) |->
        [j \in 1..(Len(cold) + Len(cnew)) |->
            IF j <= Len(cold)
            THEN Call(similarity_function, new_clusters[cnew[i]],
                      old_clusters[cold[j]], Get(claims, cold[j]),
                      Get(rejected, cold[j]))
            ELSE Call(similarity_function, new_clusters[cnew[i]],
                      <<>>, <<>>, <<>>)]]

\* Lines 166-168: munkres.Munkres().compute(matrix).  The library returns one
\* assignment of every row to a column of its own with the least total cost,
\* as the list of (row, column) in the order of the rows, 0-based; which one
\* of several optimal assignments it returns is not part of its contract.
RECURSIVE Total(_, _, _)
Total(matrix, a, i) ==
    IF i = 0 THEN 0 ELSE matrix[i][a[i]] + Total(matrix, a, i - 1)

RowAssignments(matrix) ==
    IF Len(matrix) = 0 THEN {<<>>}
    ELSE {a \in [DOMAIN matrix -> DOMAIN matrix[1]] :
             \A i, j \in DOMAIN a : i # j => a[i] # a[j]}

\* Faulty variant of compute: every row takes a cheapest column of its own,
\* whether or not another row took it.
compute_Greedy(matrix) ==
    {[i \in DOMAIN a |-> <<i - 1, a[i] - 1>>] :
        a \in {b \in [DOMAIN matrix -> DOMAIN matrix[1]] :
                  \A i \in DOMAIN matrix : \A j \in DOMAIN matrix[1] :
                      matrix[i][b[i]] <= matrix[i][j]}}

compute(matrix) ==
    {[i \in DOMAIN a |-> <<i - 1, a[i] - 1>>] :
        a \in {b \in RowAssignments(matrix) :
                  \A c \in RowAssignments(matrix) :
                      Total(matrix, b, Len(matrix))
                          <= Total(matrix, c, Len(matrix))}}

----------------------------------------------------------------------------
\* Faulty variants of Place, to see that the properties below depend on it:
\* one loses the entity its target rejects, one takes no notice of the
\* claims, one takes no notice of the rejections.
Place_DropRejected(sig, old, acc) ==
    LET reversed_old == Reversed(old_clusters)
    IN  IF sig \in ClaimsSet(claims)
        THEN [acc EXCEPT !.assigned[reversed_old[sig]] = Append(@, sig)]
        ELSE IF old < Cardinality(DOMAIN old_clusters)
        THEN IF old + 1 > Len(current_old)
             THEN [acc EXCEPT !.raised = TRUE]
             ELSE IF sig \in Range(Get(rejected, current_old[old + 1]))
             THEN acc
             ELSE [acc EXCEPT !.assigned[current_old[old + 1]] =
                                  Append(@, sig)]
        ELSE [acc EXCEPT !.to_new_cluster = Append(@, sig)]

Place_IgnoreClaims(sig, old, acc) ==
    LET reversed_old == Reversed(old_clusters)
    IN  IF old < Cardinality(DOMAIN old_clusters)
        THEN IF old + 1 > Len(current_old)
             THEN [acc EXCEPT !.raised = TRUE]
             ELSE IF sig \in Range(Get(rejected, current_old[old + 1]))
             THEN [acc EXCEPT !.assigned[reversed_old[sig]] = Append(@, sig)]
             ELSE [acc EXCEPT !.assigned[current_old[old + 1]] =
                                  Append(@, sig)]
        ELSE [acc EXCEPT !.to_new_cluster = Append(@, sig)]

Place_IgnoreRejected(sig, old, acc) ==
    LET reversed_old == Reversed(old_clusters)
    IN  IF sig \in ClaimsSet(claims)
        THEN [acc EXCEPT !.assigned[reversed_old[sig]] = Append(@, sig)]
        ELSE IF old < Cardinality(DOMAIN old_clusters)
        THEN IF old + 1 > Len(current_old)
             THEN [acc EXCEPT !.raised = TRUE]
             ELSE [acc EXCEPT !.assigned[current_old[old + 1]] =
                                  Append(@, sig)]
        ELSE [acc EXCEPT !.to_new_cluster = Append(@, sig)]

\* Two more faulty variants of Place: one puts the entity at the head of
\* the list instead of its end, one takes the column for an index into all
\* old clusters (in the order of their ids) instead of into current_old.
Place_Prepend(sig, old, acc) ==
    LET reversed_old == Reversed(old_clusters)
    IN  IF sig \in ClaimsSet(claims)
        THEN [acc EXCEPT !.assigned[reversed_old[sig]] = <<sig>> \o @]
        ELSE IF old < Cardinality(DOMAIN old_clusters)
        THEN IF old + 1 > Len(current_old)
             THEN [acc EXCEPT !.raised = TRUE]
             ELSE IF sig \in Range(Get(rejected, current_old[old + 1]))
             THEN [acc EXCEPT !.assigned[reversed_old[sig]] = <<sig>> \o @]
             ELSE [acc EXCEPT !.assigned[current_old[old + 1]] =
                                  <<sig>> \o @]
        ELSE [acc EXCEPT !.to_new_cluster = <<sig>> \o @]

Place_GlobalIndex(sig, old, acc) ==
    LET reversed_old == Reversed(old_clusters)
        target == CHOOSE g \in DOMAIN old_clusters :
                      Cardinality({h \in DOMAIN old_clusters : h < g}) = old
    IN  IF sig \in ClaimsSet(claims)
        THEN [acc EXCEPT !.assigned[reversed_old[sig]] = Append(@, sig)]
        ELSE IF old < Cardinality(DOMAIN old_clusters)
        THEN IF sig \in Range(Get(rejected, target))
             THEN [acc EXCEPT !.assigned[reversed_old[sig]] = Append(@, sig)]
             ELSE [acc EXCEPT !.assigned[target] = Append(@, sig)]
        ELSE [acc EXCEPT !.to_new_cluster = Append(@, sig)]

\* Lines 173-187: the placement of one entity of a new cluster that the
\* solver gave column `old` (0-based).  acc holds assigned, to_new_cluster
\* and whether current_old[old] raised IndexError.
Place(sig, old, acc) ==
    LET reversed_old == Reversed(old_clusters)
    IN  IF sig \in ClaimsSet(claims)
        THEN [acc EXCEPT !.assigned[reversed_old[sig]] = Append(@, sig)]
        ELSE IF old < Cardinality(DOMAIN old_clusters)
        THEN IF old + 1 > Len(current_old)
             THEN [acc EXCEPT !.raised = TRUE]
             ELSE IF sig \in Range(Get(rejected, current_old[old + 1]))
             THEN [acc EXCEPT !.assigned[reversed_old[sig]] = Append(@, sig)]
             ELSE [acc EXCEPT !.assigned[current_old[old + 1]] =
                                  Append(@, sig)]
        ELSE [acc EXCEPT !.to_new_cluster = Append(@, sig)]

\* Line 172: the loop over the entities of the new cluster, from position i
\* on; the exception ends it.
RECURSIVE ResolveSigs(_, _, _, _)
ResolveSigs(sigs, i, old, acc) ==
    IF acc.raised \/ i > Len(sigs) THEN acc
    ELSE ResolveSigs(sigs, i + 1, old, Place(sigs[i], old, acc))

----------------------------------------------------------------------------
\* The call.  Init is the state after lines 111-130.

\* Faulty variant of InitialAssigned: no list for an empty old cluster.
InitialAssigned_NonEmpty ==
    [k \in {g \in DOMAIN old_clusters : old_clusters[g] # <<>>} |-> <<>>]

\* Line 111: one empty list per old cluster.
InitialAssigned == [k \in DOMAIN old_clusters |-> <<>>]

Init ==
    /\ old_clusters \in Partitions(OldIds)
    /\ new_clusters \in Partitions(NewIds)
    /\ similarity_function \in CostFunctions
    /\ claims \in Overrides
    /\ rejected \in Overrides
    /\ assigned = InitialAssigned
    /\ unassigned = <<>>
    /\ old_visited = [k \in DOMAIN old_clusters |-> FALSE]
    /\ new_visited = [k \in DOMAIN new_clusters |-> FALSE]
    /\ current_new = <<>>
    /\ current_old = <<>>
    /\ todo = DOMAIN new_clusters
    /\ assignment = <<>>
    /\ idx = 1
    /\ pc = "loop"
    /\ exc = "none"
    /\ solved = <<>>

\* Lines 134-135, 149, 191-192: the loop reaches a new cluster that a
\* traversal already visited; current_new is empty and nothing is solved.
\* (The order in which a dict yields its keys is not specified.)
Skip(k) ==
    /\ pc = "loop"
    /\ k \in todo
    /\ new_visited[k]
    /\ todo' = todo \ {k}
    /\ current_new' = <<>>
    /\ current_old' = <<>>
    /\ UNCHANGED <<inputs, assigned, unassigned, old_visited, new_visited,
                   assignment, idx, pc, exc, solved>>

\* The traversal lines 137-145 start from new cluster k.
Dug(k) ==
    TraverseSigs("new", new_clusters[k], 1,
        Enter("new", k,
              [current_new |-> current_new, current_old |-> current_old,
               new_visited |-> new_visited, old_visited |-> old_visited,
               raised |-> FALSE]))

\* Lines 134-145: the loop reaches an unvisited new cluster and collects its
\* component.
Dig(k) ==
    /\ pc = "loop"
    /\ k \in todo
    /\ ~new_visited[k]
    /\ ~Dug(k).raised
    /\ todo' = todo \ {k}
    /\ current_new' = Dug(k).current_new
    /\ current_old' = Dug(k).current_old
    /\ new_visited' = Dug(k).new_visited
    /\ old_visited' = Dug(k).old_visited
    /\ pc' = "solve"
    /\ UNCHANGED <<inputs, assigned, unassigned, assignment, idx, exc, solved>>

\* Lines 140, 103: a lookup in reversed_old or reversed_new raises KeyError
\* and the exception leaves cluster_assignment (the lists and the visited
\* maps are as the traversal left them).
DigRaises(k) ==
    /\ pc = "loop"
    /\ k \in todo
    /\ ~new_visited[k]
    /\ Dug(k).raised
    /\ current_new' = Dug(k).current_new
    /\ current_old' = Dug(k).current_old
    /\ new_visited' = Dug(k).new_visited
    /\ old_visited' = Dug(k).old_visited
    /\ pc' = "raised"
    /\ exc' = "KeyError"
    /\ UNCHANGED <<inputs, assigned, unassigned, todo, assignment, idx,
                   solved>>

\* Lines 149-168: the cost matrix of the component and its assignment.
Solve ==
    /\ pc = "solve"
    /\ \E a \in compute(cost_matrix(current_new, current_old)) :
          /\ assignment' = a
          /\ solved' = Append(solved,
                 [new |-> current_new, old |-> current_old,
                  matrix |-> cost_matrix(current_new, current_old),
                  assignment |-> a])
    /\ idx' = 1
    /\ pc' = "resolve"
    /\ UNCHANGED <<inputs, assigned, unassigned, old_visited, new_visited,
                   current_new, current_old, todo, exc>>

\* Lines 171-187 for the pair assignment[idx].
Resolved ==
    ResolveSigs(new_clusters[current_new[assignment[idx][1] + 1]], 1,
                assignment[idx][2],
                [assigned |-> assigned, to_new_cluster |-> <<>>,
                 raised |-> FALSE])

\* Faulty variant of Resolve: to_new_cluster is appended to unassigned
\* also when it is empty.
Resolve_AppendEmpty ==
    /\ pc = "resolve"
    /\ idx <= Len(assignment)
    /\ ~Resolved.raised
    /\ assigned' = Resolved.assigned
    /\ unassigned' = Append(unassigned, Resolved.to_new_cluster)
    /\ idx' = idx + 1
    /\ UNCHANGED <<inputs, old_visited, new_visited, current_new,
                   current_old, todo, assignment, pc, exc, solved>>

\* Lines 170-189: one pair of the assignment.
Resolve ==
    /\ pc = "resolve"
    /\ idx <= Len(assignment)
    /\ ~Resolved.raised
    /\ assigned' = Resolved.assigned
    /\ unassigned' = IF Resolved.to_new_cluster # <<>>
                     THEN Append(unassigned, Resolved.to_new_cluster)
                     ELSE unassigned
    /\ idx' = idx + 1
    /\ UNCHANGED <<inputs, old_visited, new_visited, current_new,
                   current_old, todo, assignment, pc, exc, solved>>

\* Line 178: current_old[old] raises IndexError and the exception leaves
\* cluster_assignment (assigned holds what the loop appended before).
ResolveRaises ==
    /\ pc = "resolve"
    /\ idx <= Len(assignment)
    /\ Resolved.raised
    /\ assigned' = Resolved.assigned
    /\ pc' = "raised"
    /\ exc' = "IndexError"
    /\ UNCHANGED <<inputs, unassigned, old_visited, new_visited,
                   current_new, current_old, todo, assignment, idx, solved>>

\* Lines 191-192: the component is done, the loop goes on.
EndComponent ==
    /\ pc = "resolve"
    /\ idx > Len(assignment)
    /\ current_new' = <<>>
    /\ current_old' = <<>>
    /\ pc' = "loop"
    /\ UNCHANGED <<inputs, assigned, unassigned, old_visited, new_visited,
                   todo, assignment, idx, exc, solved>>

\* Line 194: return assigned, unassigned.
Return ==
    /\ pc = "loop"
    /\ todo = {}
    /\ pc' = "done"
    /\ UNCHANGED <<inputs, assigned, unassigned, old_visited, new_visited,
                   current_new, current_old, todo, assignment, idx, exc,
                   solved>>

Next ==
    \/ \E k \in NewIds : Skip(k)
    \/ \E k \in NewIds : Dig(k)
    \/ \E k \in NewIds : DigRaises(k)
    \/ Solve
    \/ Resolve
    \/ ResolveRaises
    \/ EndComponent
    \/ Return

Spec == Init /\ [][Next]_vars

----------------------------------------------------------------------------
\* Vocabulary of the properties.

\* The entities some key of claims claims; the entities old id g rejects.
Claimed == UNION {{claims[k][i] : i \in DOMAIN claims[k]} : k \in DOMAIN claims}

RejectedBy(g) ==
    IF g \in DOMAIN rejected
    THEN {rejected[g][i] : i \in DOMAIN rejected[g]} ELSE {}

\* The positions of entity e in the lists of a mapping or of a list of lists.
Positions(lists, e) ==
    {p \in UNION {{<<g, i>> : i \in DOMAIN lists[g]} : g \in DOMAIN lists} :
        lists[p[1]][p[2]] = e}

\* How often e occurs in the result, and in new_clusters.
Occurrences(e) ==
    Cardinality(Positions(assigned, e)) + Cardinality(Positions(unassigned, e))

NewOccurrences(e) == Cardinality(Positions(new_clusters, e))

InUnassigned(e) == Positions(unassigned, e) # {}

\* The old cluster and the new cluster that hold e in the arguments.
OldOf(e) == CHOOSE g \in DOMAIN old_clusters : e \in Range(old_clusters[g])
NewOf(e) == CHOOSE k \in DOMAIN new_clusters : e \in Range(new_clusters[k])

\* For a new cluster k of a solved component: the component, the row of k,
\* the column the solver gave it (0-based), the old side of the component,
\* and the old cluster k is matched to (0 when the column is a dummy).
IsSolved(k) == \E c \in DOMAIN solved : k \in Range(solved[c].new)
CompOf(k) == CHOOSE c \in DOMAIN solved : k \in Range(solved[c].new)
RowOf(k) ==
    CHOOSE i \in DOMAIN solved[CompOf(k)].new : solved[CompOf(k)].new[i] = k
ColumnOf(k) == solved[CompOf(k)].assignment[RowOf(k)][2]
OldSide(k) == solved[CompOf(k)].old
MatchedOld(k) ==
    IF ColumnOf(k) < Len(OldSide(k)) THEN OldSide(k)[ColumnOf(k) + 1] ELSE 0

----------------------------------------------------------------------------
\* C1: at every moment of the call, and so in the returned mapping, the keys
\* of assigned are exactly the keys of old_clusters; in the result an old
\* cluster that holds no entity of any new cluster is mapped to the empty
\* list.
C1_AssignedKeys ==
    /\ DOMAIN assigned = DOMAIN old_clusters
    /\ pc = "done" =>
          \A g \in DOMAIN old_clusters :
              Range(old_clusters[g]) \cap AllEntities(new_clusters) = {}
                  => assigned[g] = <<>>

\* A returned result with an untouched old cluster next to a filled one.
C1_Witness ==
    /\ pc = "done"
    /\ \E g, h \in DOMAIN old_clusters :
          /\ Range(old_clusters[g]) \cap AllEntities(new_clusters) = {}
          /\ assigned[g] = <<>>
          /\ assigned[h] # <<>>

\* C2: in the result every entity occurs, over all lists of assigned and of
\* unassigned together, exactly as often as in new_clusters: the entities of
\* the new clusters once, an entity that only old_clusters holds never.
C2_NoEntityLoss ==
    pc = "done" => \A e \in Entities : Occurrences(e) = NewOccurrences(e)

\* A returned result for arguments with claims, rejections, an entity of the
\* new clusters and an entity that only the old clusters hold.
C2_Witness ==
    /\ pc = "done"
    /\ claims # EmptyMap
    /\ rejected # EmptyMap
    /\ AllEntities(new_clusters) # {}
    /\ AllEntities(old_clusters) \ AllEntities(new_clusters) # {}

\* C3 as stated, for the claims filed under the id of an old cluster: in the
\* result an entity that old cluster g claims and that a new cluster holds
\* is in assigned[g] and nowhere else.
C3_ClaimDominance ==
    pc = "done" =>
        \A g \in DOMAIN claims \cap DOMAIN old_clusters :
            \A e \in Range(claims[g]) \cap AllEntities(new_clusters) :
                e \in Range(assigned[g]) /\ Occurrences(e) = 1

\* C3 as amended: in the result a claimed entity that a new cluster holds is
\* in the list of the old cluster that holds it in old_clusters, once, and
\* nowhere else, whatever column its new cluster was given.
C3_ClaimedStaysWithOwner ==
    pc = "done" =>
        \A e \in Claimed \cap AllEntities(new_clusters) :
            /\ \E g \in DOMAIN old_clusters : e \in Range(old_clusters[g])
            /\ e \in Range(assigned[OldOf(e)])
            /\ Occurrences(e) = 1

\* A returned result where the new cluster of a claimed entity was matched
\* to a dummy column or to an old cluster that is not the entity's.
C3_Witness ==
    /\ pc = "done"
    /\ \E e \in Claimed \cap AllEntities(new_clusters) :
          MatchedOld(NewOf(e)) # OldOf(e)

\* C4 as stated: in the result an unclaimed entity whose new cluster is
\* matched to an old cluster that rejects it is in the list of the old
\* cluster that holds it in old_clusters, not in the list of the matched old
\* cluster and not in unassigned.
C4_RejectionRedirect ==
    pc = "done" =>
        \A e \in AllEntities(new_clusters) \ Claimed :
            (/\ MatchedOld(NewOf(e)) # 0
             /\ e \in RejectedBy(MatchedOld(NewOf(e))))
            => /\ e \in Range(assigned[OldOf(e)])
               /\ e \notin Range(assigned[MatchedOld(NewOf(e))])
               /\ ~InUnassigned(e)

\* C4 as amended: the same, the entity being absent from the list of the
\* matched old cluster when that cluster is not the one that holds it in
\* old_clusters.
C4_RejectionRedirectElsewhere ==
    pc = "done" =>
        \A e \in AllEntities(new_clusters) \ Claimed :
            (/\ MatchedOld(NewOf(e)) # 0
             /\ e \in RejectedBy(MatchedOld(NewOf(e))))
            => /\ e \in Range(assigned[OldOf(e)])
               /\ Occurrences(e) = 1
               /\ MatchedOld(NewOf(e)) # OldOf(e)
                     => e \notin Range(assigned[MatchedOld(NewOf(e))])
               /\ ~InUnassigned(e)

\* A returned result where an unclaimed entity was redirected from the
\* matched old cluster, which rejects it, to another old cluster.
C4_Witness ==
    /\ pc = "done"
    /\ \E e \in AllEntities(new_clusters) \ Claimed :
          /\ MatchedOld(NewOf(e)) # 0
          /\ e \in RejectedBy(MatchedOld(NewOf(e)))
          /\ MatchedOld(NewOf(e)) # OldOf(e)

----------------------------------------------------------------------------
\* The placement of new cluster k has been run (to its end or to the
\* exception): k is in a solved component and the loop of line 170 has
\* reached its pair.
Attempted(k) ==
    /\ IsSolved(k)
    /\ \/ CompOf(k) < Len(solved)
       \/ pc \in {"loop", "solve", "done"}
       \/ pc = "raised" /\ exc = "KeyError"
       \/ pc = "resolve" /\ RowOf(k) < idx
       \/ pc = "raised" /\ exc = "IndexError" /\ RowOf(k) <= idx

\* C5 as stated, for the components where the solver has no choice (one
\* optimal assignment): once the placement of a new cluster with a column
\* index >= n, n the number of old clusters of its component, has been run,
\* no exception has left the call, and each of its unclaimed entities is in
\* unassigned and in no list of assigned.
C5_DummyRouting ==
    \A k \in DOMAIN new_clusters :
        (/\ Attempted(k)
         /\ Cardinality(compute(solved[CompOf(k)].matrix)) = 1
         /\ ColumnOf(k) >= Len(OldSide(k)))
        => /\ pc # "raised"
           /\ \A e \in Range(new_clusters[k]) \ Claimed :
                  InUnassigned(e) /\ Positions(assigned, e) = {}

\* C6 as stated: when the entities of new cluster k occur in no old cluster,
\* the lookup of line 140 for k does not raise, and in the result k is a
\* component of its own with an empty old side and its entities are one
\* list of unassigned.
C6_NoSharedEntity ==
    \A k \in DOMAIN new_clusters :
        Range(new_clusters[k]) \cap AllEntities(old_clusters) = {}
        => /\ ~(pc = "raised" /\ exc = "KeyError"
                   /\ current_new = <<k>> /\ current_old = <<>>)
           /\ pc = "done" =>
                 /\ \E c \in DOMAIN solved :
                       solved[c].new = <<k>> /\ solved[c].old = <<>>
                 /\ new_clusters[k] # <<>> =>
                       \E i \in DOMAIN unassigned :
                           unassigned[i] = new_clusters[k]

----------------------------------------------------------------------------
\* C7.  The assignment of every solved component gives each row one pair,
\* in the order of the rows, with a column of the matrix, and no two rows
\* the same column.
OneColumnEach ==
    \A c \in DOMAIN solved :
        LET m == Len(solved[c].new)
            n == Len(solved[c].old)
            a == solved[c].assignment
        IN  /\ Len(a) = m
            /\ \A i \in 1..m : a[i][1] = i - 1 /\ a[i][2] \in 0..(n + m - 1)
            /\ \A i, j \in 1..m : i # j => a[i][2] # a[j][2]

\* In the result every list of assigned holds entities of at most one new
\* cluster, and the entities of a new cluster are all in one list of
\* assigned or all in one list of unassigned.
OneDestination ==
    /\ \A g \in DOMAIN assigned :
          \A e, f \in Range(assigned[g]) : NewOf(e) = NewOf(f)
    /\ \A k \in DOMAIN new_clusters :
          \/ \E g \in DOMAIN assigned :
                Range(new_clusters[k]) \subseteq Range(assigned[g])
          \/ \E i \in DOMAIN unassigned :
                Range(new_clusters[k]) \subseteq Range(unassigned[i])
          \/ new_clusters[k] = <<>>

\* The new clusters of component c whose list is a list of unassigned, and
\* those the solver gave a dummy column.
LeftUnassigned(c) ==
    {k \in Range(solved[c].new) :
        \E i \in DOMAIN unassigned : unassigned[i] = new_clusters[k]}

OnDummy(c) ==
    {k \in Range(solved[c].new) : ColumnOf(k) >= Len(solved[c].old)}

\* C7 as stated: one column each; and, for a result of a call without
\* claims and rejections, one destination for every new cluster and at
\* least m - n new clusters of a component with m new and n < m old
\* clusters in unassigned.
C7_OneToOne ==
    /\ OneColumnEach
    /\ (pc = "done" /\ claims = EmptyMap /\ rejected = EmptyMap) =>
          /\ OneDestination
          /\ \A c \in DOMAIN solved :
                Len(solved[c].new) > Len(solved[c].old) =>
                    Cardinality(LeftUnassigned(c))
                        >= Len(solved[c].new) - Len(solved[c].old)

\* C7 as amended: at least m - n new clusters of the component are on dummy
\* columns, and each of them that is not empty is a list of unassigned.
C7_OneToOneNonEmpty ==
    /\ OneColumnEach
    /\ (pc = "done" /\ claims = EmptyMap /\ rejected = EmptyMap) =>
          /\ OneDestination
          /\ \A c \in DOMAIN solved :
                Len(solved[c].new) > Len(solved[c].old) =>
                    /\ Cardinality(OnDummy(c))
                           >= Len(solved[c].new) - Len(solved[c].old)
                    /\ \A k \in OnDummy(c) :
                           new_clusters[k] # <<>> => k \in LeftUnassigned(c)

\* A result without claims and rejections where a component of two new
\* clusters and one old cluster left one new cluster to the old cluster and
\* the other in unassigned.
C7_Witness ==
    /\ pc = "done" /\ claims = EmptyMap /\ rejected = EmptyMap
    /\ \E c \in DOMAIN solved :
          /\ Len(solved[c].new) = 2 /\ Len(solved[c].old) = 1
          /\ Cardinality(LeftUnassigned(c)) = 1
          /\ assigned[solved[c].old[1]] # <<>>

----------------------------------------------------------------------------
\* C8.  The cost of row i and column j (1-based) of component c as the
\* contract states it: the cost function on the new cluster and the old
\* cluster with the claims and rejections of the old cluster, or on the new
\* cluster and three empty lists for a dummy column.
StatedCost(c, i, j) ==
    LET x == new_clusters[solved[c].new[i]]
    IN  IF j <= Len(solved[c].old)
        THEN LET g == solved[c].old[j]
             IN  Call(similarity_function, x, old_clusters[g],
                      IF g \in DOMAIN claims THEN claims[g] ELSE <<>>,
                      IF g \in DOMAIN rejected THEN rejected[g] ELSE <<>>)
        ELSE Call(similarity_function, x, <<>>, <<>>, <<>>)

RECURSIVE StatedTotal(_, _, _)
StatedTotal(c, a, i) ==
    IF i = 0 THEN 0 ELSE StatedCost(c, i, a[i]) + StatedTotal(c, a, i - 1)

\* The columns (1-based) the assignment of component c gives to its rows.
UsedColumns(c) ==
    [i \in 1..Len(solved[c].new) |-> solved[c].assignment[i][2] + 1]

\* Column j of a component with one new cluster is an old cluster of
\* strictly lowest cost, below the cost of the dummy column.
StrictlyBest(c, j) ==
    /\ Len(solved[c].new) = 1
    /\ j \in 1..Len(solved[c].old)
    /\ \A h \in 1..(Len(solved[c].old) + 1) :
          h # j => StatedCost(c, 1, j) < StatedCost(c, 1, h)

\* C8: the assignment of every solved component costs no more than any
\* assignment of its rows to distinct columns of the m x (n+m) matrix; a new
\* cluster alone in its component is given the old cluster of strictly
\* lowest cost below the dummy cost, and in the result its entities that
\* are neither claimed nor rejected by that old cluster are in its list.
C8_MinimumCost ==
    \A c \in DOMAIN solved :
        LET m == Len(solved[c].new)
            n == Len(solved[c].old)
        IN  /\ \A a \in [1..m -> 1..(n + m)] :
                  (\A i, j \in 1..m : i # j => a[i] # a[j])
                  => StatedTotal(c, UsedColumns(c), m) <= StatedTotal(c, a, m)
            /\ \A j \in 1..n :
                  StrictlyBest(c, j) =>
                      /\ UsedColumns(c)[1] = j
                      /\ pc = "done" =>
                            \A e \in Range(new_clusters[solved[c].new[1]]) :
                                (/\ e \notin Claimed
                                 /\ e \notin RejectedBy(solved[c].old[j]))
                                => e \in Range(assigned[solved[c].old[j]])

\* A result where a new cluster alone in a component with two old clusters
\* went to the one of strictly lowest, negative cost, below the dummy cost;
\* and one where two new clusters were solved together.
C8_Witness ==
    /\ pc = "done"
    /\ \E c \in DOMAIN solved : \E j \in 1..Len(solved[c].old) :
          /\ Len(solved[c].old) = 2
          /\ StrictlyBest(c, j)
          /\ StatedCost(c, 1, j) < 0
          /\ assigned[solved[c].old[j]] # <<>>

----------------------------------------------------------------------------
\* C9.  The connected components of the graph in which a new cluster and an
\* old cluster are adjacent iff they share an entity, computed as a least
\* fixed point from new cluster k.
Adjacent(k, g) == Range(new_clusters[k]) \cap Range(old_clusters[g]) # {}

RECURSIVE Grow(_)
Grow(S) ==
    LET T == [new |-> S.new \cup {k \in DOMAIN new_clusters :
                                     \E g \in S.old : Adjacent(k, g)},
              old |-> S.old \cup {g \in DOMAIN old_clusters :
                                     \E k \in S.new : Adjacent(k, g)}]
    IN  IF T = S THEN S ELSE Grow(T)

ComponentOf(k) == Grow([new |-> {k}, old |-> {}])

NoRepeat(s) == \A i, j \in DOMAIN s : i # j => s[i] # s[j]

\* C9: every pair handed to the solver is a connected component, each group
\* listed once; no two pairs share a group (no component is solved twice,
\* no group is in two components); and when the call returns every new
\* cluster is in one of the pairs.
C9_Decomposition ==
    /\ \A c \in DOMAIN solved :
          /\ solved[c].new # <<>>
          /\ NoRepeat(solved[c].new) /\ NoRepeat(solved[c].old)
          /\ [new |-> Range(solved[c].new), old |-> Range(solved[c].old)]
                 = ComponentOf(solved[c].new[1])
    /\ \A c, d \in DOMAIN solved :
          c # d => /\ Range(solved[c].new) \cap Range(solved[d].new) = {}
                   /\ Range(solved[c].old) \cap Range(solved[d].old) = {}
    /\ pc = "done" => \A k \in DOMAIN new_clusters : IsSolved(k)

\* A result with a component of three groups, two of them on the same side,
\* so linked only through the third.
C9_Witness ==
    /\ pc = "done"
    /\ \E c \in DOMAIN solved : Len(solved[c].new) + Len(solved[c].old) = 3

----------------------------------------------------------------------------
\* C10.  claims or rejected has a key that is no key of old_clusters.
ForeignKey ==
    ~((DOMAIN claims \cup DOMAIN rejected) \subseteq DOMAIN old_clusters)

\* C10 as stated: with such a key the call returns no result.
C10_FailFast == ForeignKey => pc # "done"

\* An exception that left the call has its cause in the partitions or in the
\* column index: an entity of a visited cluster that the other partition
\* does not hold, or a dummy column index below len(old_clusters).
OwnCause ==
    \/ /\ exc = "KeyError"
       /\ \/ \E k \in Range(current_new) :
                ~(Range(new_clusters[k]) \subseteq AllEntities(old_clusters))
          \/ \E g \in Range(current_old) :
                ~(Range(old_clusters[g]) \subseteq AllEntities(new_clusters))
    \/ /\ exc = "IndexError"
       /\ assignment[idx][2] >= Len(current_old)
       /\ assignment[idx][2] < Cardinality(DOMAIN old_clusters)

\* C10 as amended: with such a key the call goes on as for any arguments; an
\* exception has its own cause; in the result the entities claimed under
\* any key, of old_clusters or not, are in the list of the old cluster that
\* holds them, and an unclaimed entity that its matched old cluster does not
\* reject is in the list of that old cluster, whatever other keys reject.
C10_ForeignKeyAccepted ==
    ForeignKey =>
        /\ pc = "raised" => OwnCause
        /\ pc = "done" =>
              /\ \A e \in Claimed \cap AllEntities(new_clusters) :
                    e \in Range(assigned[OldOf(e)])
              /\ \A e \in AllEntities(new_clusters) \ Claimed :
                    (/\ MatchedOld(NewOf(e)) # 0
                     /\ e \notin RejectedBy(MatchedOld(NewOf(e))))
                    => e \in Range(assigned[MatchedOld(NewOf(e))])

\* A result of a call whose claims are filed under a key that is no key of
\* old_clusters, for an entity of a new cluster that went to a dummy column.
C10_Witness ==
    /\ pc = "done"
    /\ \E k \in DOMAIN claims \ DOMAIN old_clusters :
          \E e \in Range(claims[k]) \cap AllEntities(new_clusters) :
              MatchedOld(NewOf(e)) = 0 /\ e \in Range(assigned[OldOf(e)])

----------------------------------------------------------------------------
\* C11.  The position of e in list s; the lists of the result; new cluster
\* k is placed before new cluster l (an earlier component, or the same
\* component and an earlier pair of its assignment).
PosIn(s, e) == CHOOSE i \in DOMAIN s : s[i] = e

OutLists ==
    {assigned[g] : g \in DOMAIN assigned}
        \cup {unassigned[i] : i \in DOMAIN unassigned}

PlacedBefore(k, l) ==
    \/ CompOf(k) < CompOf(l)
    \/ CompOf(k) = CompOf(l) /\ RowOf(k) < RowOf(l)

\* C11: in every list of assigned and of unassigned two entities of the
\* same new cluster stand in the order they have in that new cluster, and in
\* every list of assigned the entities of a new cluster placed earlier stand
\* before those of a new cluster placed later.
C11_OrderPreserved ==
    /\ \A L \in OutLists : \A i, j \in DOMAIN L :
          (i < j /\ NewOf(L[i]) = NewOf(L[j]))
          => PosIn(new_clusters[NewOf(L[i])], L[i])
                 < PosIn(new_clusters[NewOf(L[j])], L[j])
    /\ \A g \in DOMAIN assigned : \A i, j \in DOMAIN assigned[g] :
          (i < j /\ NewOf(assigned[g][i]) # NewOf(assigned[g][j]))
          => PlacedBefore(NewOf(assigned[g][i]), NewOf(assigned[g][j]))

\* A result with a list of assigned that holds entities of two new
\* clusters, the larger entity first.
C11_Witness ==
    /\ pc = "done"
    /\ \E g \in DOMAIN assigned :
          /\ Len(assigned[g]) = 2
          /\ NewOf(assigned[g][1]) # NewOf(assigned[g][2])
          /\ assigned[g][1] > assigned[g][2]

\* A result with a list that holds two entities of one new cluster, the
\* larger entity first.
C11_WitnessSameCluster ==
    /\ pc = "done"
    /\ \E L \in OutLists :
          /\ Len(L) = 2
          /\ NewOf(L[1]) = NewOf(L[2])
          /\ L[1] > L[2]

----------------------------------------------------------------------------
\* C12.  The unclaimed entities of new cluster k, in their order.
Unclaimed(k) ==
    LET Free(e) == e \notin Claimed
    IN  SelectSeq(new_clusters[k], Free)

\* C12: at every moment of the call, and so in the result, no list of
\* unassigned is empty, every list of unassigned is the whole of the
\* unclaimed entities of one new cluster that was given a dummy column, and
\* no two lists of unassigned hold entities of the same new cluster.
C12_UnassignedStructure ==
    \A i \in DOMAIN unassigned :
        /\ unassigned[i] # <<>>
        /\ \E k \in DOMAIN new_clusters :
              /\ IsSolved(k)
              /\ ColumnOf(k) >= Len(OldSide(k))
              /\ unassigned[i] = Unclaimed(k)
        /\ \A j \in DOMAIN unassigned :
              j # i => \A e \in Range(unassigned[i]) :
                           \A f \in Range(unassigned[j]) :
                               NewOf(e) # NewOf(f)

\* A result with a list in unassigned, where another new cluster, not
\* empty, was given a dummy column too and has all its entities claimed, so
\* that it left no list in unassigned.
C12_Witness ==
    /\ pc = "done"
    /\ unassigned # <<>>
    /\ \E k \in DOMAIN new_clusters :
          /\ new_clusters[k] # <<>>
          /\ ColumnOf(k) >= Len(OldSide(k))
          /\ Range(new_clusters[k]) \subseteq Claimed

\* A result with two lists in unassigned.
C12_WitnessTwoLists == pc = "done" /\ Len(unassigned) = 2

----------------------------------------------------------------------------
\* C13.  Entity e of the list of old cluster g is not an entity of g in
\* old_clusters.
Newcomer(g, e) == e \in Range(assigned[g]) /\ e \notin Range(old_clusters[g])

\* C13: at every moment of the call, and so in the result, an entity in the
\* list of old cluster g is an entity of g in old_clusters or an entity of
\* a new cluster that the assignment matched to g, and there is one such
\* new cluster at most; g is an old cluster of the connected component of
\* the entity's new cluster; and in the result an old cluster that shares
\* no entity with any new cluster has the empty list.
C13_Locality ==
    /\ \A g \in DOMAIN assigned :
          /\ \A e \in Range(assigned[g]) :
                /\ \/ e \in Range(old_clusters[g])
                   \/ IsSolved(NewOf(e)) /\ MatchedOld(NewOf(e)) = g
                /\ g \in ComponentOf(NewOf(e)).old
          /\ \A e, f \in Range(assigned[g]) :
                (Newcomer(g, e) /\ Newcomer(g, f)) => NewOf(e) = NewOf(f)
    /\ pc = "done" =>
          \A g \in DOMAIN old_clusters :
              (\A k \in DOMAIN new_clusters : ~Adjacent(k, g))
                  => assigned[g] = <<>>

\* A result where the list of an old cluster holds an entity that is not
\* its own in old_clusters, brought by the new cluster matched to it, while
\* a second old cluster of the same component got nothing.
C13_Witness ==
    /\ pc = "done"
    /\ \E g, h \in DOMAIN assigned : \E e \in Entities :
          /\ Newcomer(g, e)
          /\ MatchedOld(NewOf(e)) = g
          /\ h # g
          /\ h \in ComponentOf(NewOf(e)).old
          /\ assigned[h] = <<>>

====
